---- MODULE Spec2Model ----
(***************************************************************************)
(* Attendance tracking engine of the_church_manager_api.                   *)
(*                                                                         *)
(* The model follows the pymongo implementation:                           *)
(*   app/api/v1/routes/attendance.py              (request handlers)       *)
(*   app/api/v1/services/attendance_service.py    (AttendanceService)      *)
(* Every database command of a handler (find_one, insert_one, the single   *)
(* document writes of insert_many, update_one, delete_one, find) is one    *)
(* atomic step; requests run concurrently and interleave between their     *)
(* database commands.  The caller is taken to be a superuser, so the       *)
(* permission checks of the handlers never reject.  The handlers' service  *)
(* calls are resolved to the AttendanceService of attendance_service.py    *)
(* (create -> create_attendance), and the differences between the pydantic *)
(* models of the two layers are left out.  A write can always be refused   *)
(* by the store (the Internal error of the handlers); the collection has   *)
(* no unique index, so it refuses no document for being a duplicate.       *)
(*                                                                         *)
(* Specifications:                                                         *)
(*   Spec           two concurrent request slots, writes on one event      *)
(*   SpecSeq        one slot, writes with malformed ids and both parents   *)
(*   SpecRec        one slot, create / update / delete while time passes   *)
(*   SpecAbs        one slot, writes and the not-attended query            *)
(*   SpecStatsConc  statistics in one slot, writes in the other            *)
(*   SpecStats      statistics on stores of up to MaxDocs records          *)
(*   SpecSum        creates while time passes, and summaries               *)
(***************************************************************************)
EXTENDS Integers, Sequences, FiniteSets, TLC

(* ------------------------------ bounds --------------------------------- *)
\* number of documents the attendance collection ever takes; past it the
\* store refuses every write
MaxId == 2
\* longest bulk_data.items list
MaxBatch == 2
\* longest bulk_data.items list of the requests that run concurrently
MaxConcBatch == 1
\* most records of one event in a store that statistics are computed on
MaxDocs == 5

\* concurrently served requests
Procs == {"r1", "r2"}

(* --------------------------- input domains ----------------------------- *)
\* a string bson.ObjectId() rejects
BadId == "bad"
\* user ids: "u1" and "u2" are users, "u3" is well formed but names no user
\* parent ids: "p1" is an event, "p2" is a meeting

ParentTypes == {"event", "meeting"}
AttendanceStatus == {"present", "absent", "late", "excused"}

\* Python's None, the default of the optional fields
None == "None"
\* current_user.id, which the handlers store as submitted_by
CurrentUser == "admin"

(* ------------------------------ datetimes ------------------------------ *)
\* a datetime, to the day
Date(y, m, d) == [year |-> y, month |-> m, day |-> d]

\* a <= b of two datetimes ($lte; $gte with the operands exchanged)
DateLeq(a, b) ==
    \/ a.year < b.year
    \/ a.year = b.year /\ a.month < b.month
    \/ a.year = b.year /\ a.month = b.month /\ a.day <= b.day

IsLeapYear(y) == (y % 4 = 0 /\ y % 100 # 0) \/ y % 400 = 0

DaysInMonth(y, m) ==
    IF m = 2 THEN (IF IsLeapYear(y) THEN 29 ELSE 28)
    ELSE IF m \in {4, 6, 9, 11} THEN 30 ELSE 31

\* %j: the day of the year, from 1
RECURSIVE DaysBeforeMonth(_, _)
DaysBeforeMonth(y, m) ==
    IF m = 1 THEN 0 ELSE DaysBeforeMonth(y, m - 1) + DaysInMonth(y, m - 1)
DayOfYear(t) == DaysBeforeMonth(t.year, t.month) + t.day

\* the day of the week, 0 = Sunday
DayOfWeek(t) ==
    LET y == IF t.month < 3 THEN t.year - 1 ELSE t.year
        k == <<0, 3, 2, 5, 0, 3, 5, 1, 4, 6, 2, 4>>[t.month]
    IN (y + (y \div 4) - (y \div 100) + (y \div 400) + k + t.day) % 7

\* %U: the week of the year; week 1 begins with the first Sunday of the
\* year and the days before it are in week 0
WeekOfYear(t) == (DayOfYear(t) + 6 - DayOfWeek(t)) \div 7

\* variant: the monthly format is "%m"
format_fields_month_only(period, t) ==
    IF period = "daily" THEN <<t.year, t.month, t.day>>
    ELSE IF period = "weekly" THEN <<t.year, WeekOfYear(t)>>
    ELSE <<t.month>>

\* the numbers the format of the period takes from a datetime
format_fields(period, t) ==
    IF period = "daily" THEN <<t.year, t.month, t.day>>        \* "%Y-%m-%d"
    ELSE IF period = "weekly" THEN <<t.year, WeekOfYear(t)>>   \* "%Y-%U"
    ELSE <<t.year, t.month>>                                   \* "%Y-%m"

\* %m, %d, %U: two digits, zero padded
Pad2(n) == IF n < 10 THEN "0" \o ToString(n) ELSE ToString(n)

\* the fields as the format writes them: the first as it is (%Y, or %m in
\* the variant), the others after a "-"
RECURSIVE join_fields(_)
join_fields(f) ==
    IF Len(f) = 1 THEN (IF f[1] < 100 THEN Pad2(f[1]) ELSE ToString(f[1]))
    ELSE join_fields(SubSeq(f, 1, Len(f) - 1)) \o "-" \o Pad2(f[Len(f)])

\* $dateToString with the format of the period
dateToString(period, t) == join_fields(format_fields(period, t))

\* a < b of two strings of one format, on their fields: the fields are zero
\* padded to a fixed width, so the order of the strings is that of the
\* tuples of their numbers
KeyLess(a, b) ==
    \E i \in 1..Len(a) : a[i] < b[i] /\ \A j \in 1..(i - 1) : a[j] = b[j]

\* an optional datetime that was not given
NoDate == Date(0, 0, 0)

\* the instants the clock takes
Instants == {Date(2022, 12, 31), Date(2023, 1, 1), Date(2023, 1, 5), Date(2023, 2, 10)}
\* the clock when the service starts
Today == Date(2022, 12, 31)

(* ------------------------------- state --------------------------------- *)
VARIABLES
    attendance,   \* db['attendance']: set of documents
    nextId,       \* next _id the store assigns
    users,        \* db['users']    (ids)
    events,       \* db['events']   (ids)
    meetings,     \* db['meetings'] (ids)
    pc,           \* pc[p]: position of request p in its handler
    req,          \* req[p]: the request's input
    loc,          \* loc[p]: the handler's local variables
    res,          \* res[p]: the response of the handler
    now           \* the value datetime.utcnow() returns

vars == <<attendance, nextId, users, events, meetings, pc, req, loc, res, now>>
dirs == <<users, events, meetings>>

NoReq == [op |-> "none"]
NoRes == [kind |-> "none", ids |-> {}]
\* idx      position of the handler's loop over the items
\* list     attendance_data_list / docs_to_insert
\* ins      _ids its inserts were acknowledged with
\* skipped  items the duplicate check logged as skipped
\* rejected documents the store refused
\* total    the result of count_documents in get_attendance_stats
NoLoc == [idx |-> 1, list |-> <<>>, ins |-> {}, skipped |-> {}, rejected |-> {},
          total |-> 0]

(* ------------------------------ helpers -------------------------------- *)
\* bson.ObjectId(s) succeeds
IsValidObjectId(s) == s # BadId

\* a second spelling of the id of user "u1": the same 24 hex digits, in
\* upper case
UpperId == "U1"
\* str(bson.ObjectId(s)): the hex digits of s in lower case
ObjectId(s) == IF s = UpperId THEN "u1" ELSE s

\* variant: the filter has user_id and parent_id swapped
get_attendance_by_user_and_parent_swapped(store, user_id, parent_id, parent_type) ==
    /\ IsValidObjectId(user_id)
    /\ IsValidObjectId(parent_id)
    /\ \E d \in store : /\ d.user_id = parent_id
                        /\ d.parent_id = user_id
                        /\ d.parent_type = parent_type

\* collection.find_one({'user_id':..,'parent_id':..,'parent_type':..}) finds a document
get_attendance_by_user_and_parent(store, user_id, parent_id, parent_type) ==
    /\ IsValidObjectId(user_id)
    /\ IsValidObjectId(parent_id)
    /\ \E d \in store : /\ d.user_id = user_id
                        /\ d.parent_id = parent_id
                        /\ d.parent_type = parent_type

\* collection.find_one({'_id': obj_id}) finds a document
get_attendance_by_id(store, id) == \E d \in store : d.id = id

\* users_collection.find_one({"_id": user_obj_id})
UserFound(user_id) == user_id \in users

\* the parent lookup of create_attendance, dispatched on parent_type
ParentFound(parent_id, parent_type) ==
    IF parent_type = "event" THEN parent_id \in events
    ELSE IF parent_type = "meeting" THEN parent_id \in meetings
    ELSE FALSE

\* the document of a new record: the fields of the input, submitted_by as
\* the handler sets it, created_at = updated_at = the given instant
NewDocAt(id, user_id, parent_id, parent_type, status, at) ==
    [id |-> id, user_id |-> user_id, parent_id |-> parent_id,
     parent_type |-> parent_type, status |-> status,
     notes |-> None, question_id |-> None, submitted_by |-> CurrentUser,
     created_at |-> at, updated_at |-> at]

\* create_attendance reads the clock right before insert_one
NewDoc(id, user_id, parent_id, parent_type, status) ==
    NewDocAt(id, user_id, parent_id, parent_type, status, now)

\* SelectSeq without a LAMBDA: the items of s whose ids ObjectId() accepts,
\* each stamped with the instant bulk_create_attendance read before its loop
RECURSIVE docs_to_insert(_, _)
docs_to_insert(s, parent_id) ==
    IF s = <<>> THEN <<>>
    ELSE IF IsValidObjectId(Head(s).user_id) /\ IsValidObjectId(parent_id)
         THEN <<[user_id |-> Head(s).user_id, status |-> Head(s).status,
                 created_at |-> now]>> \o docs_to_insert(Tail(s), parent_id)
         ELSE docs_to_insert(Tail(s), parent_id)

\* the collection takes another document
Room == nextId <= MaxId

Finish(p, kind, ids) ==
    /\ pc' = [pc EXCEPT ![p] = "done"]
    /\ res' = [res EXCEPT ![p] = [kind |-> kind, ids |-> ids]]

(* ------------------------------- Init ---------------------------------- *)
Init ==
    /\ attendance = {}
    /\ nextId = 1
    /\ users = {"u1", "u2"}
    /\ events = {"p1"}
    /\ meetings = {"p2"}
    /\ pc = [p \in Procs |-> "idle"]
    /\ req = [p \in Procs |-> NoReq]
    /\ loc = [p \in Procs |-> NoLoc]
    /\ res = [p \in Procs |-> NoRes]
    /\ now = Today

(* --------------------------- POST /attendance -------------------------- *)
\* routes/attendance.py create_attendance: the request arrives and the
\* handler runs its existence check
CreateCheck(p, user_id, parent_id, parent_type, status) ==
    /\ pc[p] = "idle"
    /\ req' = [req EXCEPT ![p] = [op |-> "create", user_id |-> user_id,
                                  parent_id |-> parent_id,
                                  parent_type |-> parent_type, status |-> status]]
    /\ loc' = [loc EXCEPT ![p] = NoLoc]
    /\ IF get_attendance_by_user_and_parent(attendance, user_id, parent_id, parent_type)
       THEN Finish(p, "Conflict", {})
       ELSE /\ pc' = [pc EXCEPT ![p] = "c_validate"]
            /\ res' = [res EXCEPT ![p] = NoRes]
    /\ UNCHANGED <<attendance, nextId, dirs, now>>

\* AttendanceService.create_attendance up to the insert: ObjectId
\* conversion, user lookup, parent lookup
CreateValidate(p) ==
    /\ pc[p] = "c_validate"
    /\ LET r == req[p] IN
       IF ~(IsValidObjectId(r.user_id) /\ IsValidObjectId(r.parent_id))
       THEN Finish(p, "InvalidArgument", {})
       ELSE IF ~UserFound(r.user_id) THEN Finish(p, "NotFound", {})
       ELSE IF ~ParentFound(r.parent_id, r.parent_type) THEN Finish(p, "NotFound", {})
       ELSE pc' = [pc EXCEPT ![p] = "c_insert"] /\ UNCHANGED res
    /\ UNCHANGED <<attendance, nextId, dirs, now, req, loc>>

\* variant: the id of the new document is the number of stored documents
\* plus one, so the id of a deleted record is given again
CreateInsert_reused_id(p) ==
    /\ pc[p] = "c_insert"
    /\ \/ /\ Room
          /\ attendance' = attendance \cup
                {NewDoc(Cardinality(attendance) + 1, req[p].user_id,
                        req[p].parent_id, req[p].parent_type, req[p].status)}
          /\ nextId' = nextId + 1
          /\ loc' = [loc EXCEPT ![p].ins = {Cardinality(attendance) + 1}]
          /\ pc' = [pc EXCEPT ![p] = "c_fetch"]
          /\ UNCHANGED res
       \/ /\ Finish(p, "Internal", {})
          /\ UNCHANGED <<attendance, nextId, loc>>
    /\ UNCHANGED <<dirs, now, req>>

\* collection.insert_one(attendance_doc); the store may fail the write
CreateInsert(p) ==
    /\ pc[p] = "c_insert"
    /\ \/ /\ Room
          /\ attendance' = attendance \cup
                {NewDoc(nextId, req[p].user_id, req[p].parent_id,
                        req[p].parent_type, req[p].status)}
          /\ nextId' = nextId + 1
          /\ loc' = [loc EXCEPT ![p].ins = {nextId}]
          /\ pc' = [pc EXCEPT ![p] = "c_fetch"]
          /\ UNCHANGED res
       \/ /\ Finish(p, "Internal", {})
          /\ UNCHANGED <<attendance, nextId, loc>>
    /\ UNCHANGED <<dirs, now, req>>

\* variant: the test on the read-back document is inverted
CreateFetch_inverted(p) ==
    /\ pc[p] = "c_fetch"
    /\ IF \E id \in loc[p].ins : get_attendance_by_id(attendance, id)
       THEN Finish(p, "Internal", {})
       ELSE Finish(p, "ok", loc[p].ins)
    /\ UNCHANGED <<attendance, nextId, dirs, now, req, loc>>

\* collection.find_one({'_id': result.inserted_id})
CreateFetch(p) ==
    /\ pc[p] = "c_fetch"
    /\ IF \E id \in loc[p].ins : get_attendance_by_id(attendance, id)
       THEN Finish(p, "ok", loc[p].ins)
       ELSE Finish(p, "Internal", {})
    /\ UNCHANGED <<attendance, nextId, dirs, now, req, loc>>

(* ------------------------ POST /attendance/bulk ------------------------ *)
\* routes/attendance.py bulk_create_attendance: the request arrives
BulkStart(p, parent_id, parent_type, items) ==
    /\ pc[p] = "idle"
    /\ req' = [req EXCEPT ![p] = [op |-> "bulk", parent_id |-> parent_id,
                                  parent_type |-> parent_type, items |-> items]]
    /\ loc' = [loc EXCEPT ![p] = NoLoc]
    /\ pc' = [pc EXCEPT ![p] = "b_check"]
    /\ res' = [res EXCEPT ![p] = NoRes]
    /\ UNCHANGED <<attendance, nextId, dirs, now>>

\* variant: the loop logs the duplicate but lacks the continue
BulkCheck_nocontinue(p) ==
    /\ pc[p] = "b_check"
    /\ loc[p].idx <= Len(req[p].items)
    /\ LET i == loc[p].idx
           item == req[p].items[i]
       IN IF get_attendance_by_user_and_parent(attendance, item.user_id,
                                               req[p].parent_id, req[p].parent_type)
          THEN loc' = [loc EXCEPT ![p].idx = i + 1,
                                  ![p].skipped = loc[p].skipped \cup {i},
                                  ![p].list = Append(loc[p].list, item)]
          ELSE loc' = [loc EXCEPT ![p].idx = i + 1,
                                  ![p].list = Append(loc[p].list, item)]
    /\ UNCHANGED <<attendance, nextId, dirs, now, pc, req, res>>

\* one round of the handler's loop: the duplicate check of item idx
BulkCheck(p) ==
    /\ pc[p] = "b_check"
    /\ loc[p].idx <= Len(req[p].items)
    /\ LET i == loc[p].idx
           item == req[p].items[i]
       IN IF get_attendance_by_user_and_parent(attendance, item.user_id,
                                               req[p].parent_id, req[p].parent_type)
          THEN loc' = [loc EXCEPT ![p].idx = i + 1,
                                  ![p].skipped = loc[p].skipped \cup {i}]
          ELSE loc' = [loc EXCEPT ![p].idx = i + 1,
                                  ![p].list = Append(loc[p].list, item)]
    /\ UNCHANGED <<attendance, nextId, dirs, now, pc, req, res>>

\* after the loop: the handler's empty-list test, then the first loop of
\* AttendanceService.bulk_create_attendance, which builds docs_to_insert
BulkPrepare(p) ==
    /\ pc[p] = "b_check"
    /\ loc[p].idx > Len(req[p].items)
    /\ LET docs == docs_to_insert(loc[p].list, req[p].parent_id) IN
       IF loc[p].list = <<>>
       THEN Finish(p, "BadRequest", {}) /\ UNCHANGED loc
       ELSE IF docs = <<>>
       THEN /\ Finish(p, "ok", {})
            /\ loc' = [loc EXCEPT ![p].list = docs]
       ELSE /\ pc' = [pc EXCEPT ![p] = "b_insert"]
            /\ loc' = [loc EXCEPT ![p].list = docs, ![p].idx = 1]
            /\ UNCHANGED res
    /\ UNCHANGED <<attendance, nextId, dirs, now, req>>

\* variant: insert_many(docs_to_insert) with the default ordered=True stops
\* at the first document the store refuses
insert_many_next_ordered(p, refused) ==
    IF refused THEN Len(loc[p].list) + 1 ELSE loc[p].idx + 1

\* the write of insert_many(docs_to_insert, ordered=False) for document idx:
\* the store takes it or refuses it, and goes on to the next either way
insert_many_next(p, refused) == loc[p].idx + 1

BulkInsert(p) ==
    /\ pc[p] = "b_insert"
    /\ loc[p].idx <= Len(loc[p].list)
    /\ LET i == loc[p].idx
           doc == loc[p].list[i]
       IN \/ /\ Room
             /\ attendance' = attendance \cup
                   {NewDocAt(nextId, doc.user_id, req[p].parent_id,
                             req[p].parent_type, doc.status, doc.created_at)}
             /\ nextId' = nextId + 1
             /\ loc' = [loc EXCEPT ![p].idx = insert_many_next(p, FALSE),
                                   ![p].ins = loc[p].ins \cup {nextId}]
          \/ /\ loc' = [loc EXCEPT ![p].idx = insert_many_next(p, TRUE),
                                   ![p].rejected = loc[p].rejected \cup {i}]
             /\ UNCHANGED <<attendance, nextId>>
    /\ UNCHANGED <<dirs, now, pc, req, res>>

\* what bulk_create_attendance returns once insert_many is over: [] when
\* insert_many raised, else the documents find({'_id': {'$in': inserted_ids}}) yields
bulk_returned(p) ==
    IF loc[p].rejected # {} THEN {}
    ELSE {id \in loc[p].ins : get_attendance_by_id(attendance, id)}

BulkFetch(p) ==
    /\ pc[p] = "b_insert"
    /\ loc[p].idx > Len(loc[p].list)
    /\ Finish(p, "ok", bulk_returned(p))
    /\ UNCHANGED <<attendance, nextId, dirs, now, req, loc>>

(* ---------------------- PUT /attendance/{id} --------------------------- *)
\* AttendanceUpdate.model_dump(exclude_unset=True) is a dict: a function from
\* the names of the fields the caller set to their values
NoFields == [f \in {} |-> None]
\* the updates that set at most the status, to one of V
StatusUpdates(V) == {NoFields} \cup {[status |-> s] : s \in V}

\* routes/attendance.py update_attendance: arrival and get_attendance_by_id
UpdateCheck(p, id, update) ==
    /\ pc[p] = "idle"
    /\ req' = [req EXCEPT ![p] = [op |-> "update", id |-> id, update |-> update]]
    /\ loc' = [loc EXCEPT ![p] = NoLoc]
    /\ IF get_attendance_by_id(attendance, id)
       THEN pc' = [pc EXCEPT ![p] = "u_update"] /\ res' = [res EXCEPT ![p] = NoRes]
       ELSE Finish(p, "NotFound", {})
    /\ UNCHANGED <<attendance, nextId, dirs, now>>

\* the fields update_attendance deletes from update_data
immutable_fields == {"user_id", "parent_id", "parent_type", "created_at"}

\* variant: no field is deleted from update_data
update_data_undeleted(attendance_update) ==
    [f \in DOMAIN attendance_update \cup {"updated_at"} |->
        IF f = "updated_at" THEN now ELSE attendance_update[f]]

\* update_data as update_one receives it: updated_at added, the immutable
\* fields deleted
update_data(attendance_update) ==
    [f \in (DOMAIN attendance_update \ immutable_fields) \cup {"updated_at"} |->
        IF f = "updated_at" THEN now ELSE attendance_update[f]]

\* variant: the status of an excused record is final
update_one_final(d, set_fields) ==
    [f \in DOMAIN d \cup DOMAIN set_fields |->
        IF f \in DOMAIN set_fields /\ ~(f = "status" /\ d.status = "excused")
        THEN set_fields[f] ELSE d[f]]

\* the $set of update_one: the fields of set_fields replace or extend those
\* of the document
update_one(d, set_fields) ==
    [f \in DOMAIN d \cup DOMAIN set_fields |->
        IF f \in DOMAIN set_fields THEN set_fields[f] ELSE d[f]]

\* variant: update_one with upsert, which stores a document under the id
\* when none matches
UpdateApply_upsert(p) ==
    /\ pc[p] = "u_update"
    /\ IF DOMAIN req[p].update = {}
       THEN /\ Finish(p, IF get_attendance_by_id(attendance, req[p].id)
                         THEN "ok" ELSE "None",
                      {d.id : d \in {e \in attendance : e.id = req[p].id}})
            /\ UNCHANGED attendance
       ELSE /\ attendance' =
                 IF get_attendance_by_id(attendance, req[p].id)
                 THEN {IF d.id = req[p].id
                       THEN update_one(d, update_data(req[p].update))
                       ELSE d : d \in attendance}
                 ELSE attendance \cup
                        {update_one(NewDoc(req[p].id, None, None, None, None),
                                    update_data(req[p].update))}
            /\ pc' = [pc EXCEPT ![p] = "u_fetch"]
            /\ UNCHANGED res
    /\ UNCHANGED <<nextId, dirs, now, req, loc>>

\* AttendanceService.update_attendance up to update_one
UpdateApply(p) ==
    /\ pc[p] = "u_update"
    /\ IF DOMAIN req[p].update = {}
       THEN \* empty update_data: return self.get_attendance_by_id(...)
            /\ Finish(p, IF get_attendance_by_id(attendance, req[p].id)
                         THEN "ok" ELSE "None",
                      {d.id : d \in {e \in attendance : e.id = req[p].id}})
            /\ UNCHANGED attendance
       ELSE IF get_attendance_by_id(attendance, req[p].id)
       THEN /\ attendance' = {IF d.id = req[p].id
                              THEN update_one(d, update_data(req[p].update))
                              ELSE d : d \in attendance}
            /\ pc' = [pc EXCEPT ![p] = "u_fetch"]
            /\ UNCHANGED res
       ELSE \* matched_count == 0
            /\ Finish(p, "None", {})
            /\ UNCHANGED attendance
    /\ UNCHANGED <<nextId, dirs, now, req, loc>>

\* the find_one after update_one
UpdateFetch(p) ==
    /\ pc[p] = "u_fetch"
    /\ IF get_attendance_by_id(attendance, req[p].id)
       THEN Finish(p, "ok", {req[p].id})
       ELSE Finish(p, "None", {})
    /\ UNCHANGED <<attendance, nextId, dirs, now, req, loc>>

(* --------------------- DELETE /attendance/{id} ------------------------- *)
\* routes/attendance.py delete_attendance: arrival and get_attendance_by_id
DeleteCheck(p, id) ==
    /\ pc[p] = "idle"
    /\ req' = [req EXCEPT ![p] = [op |-> "delete", id |-> id]]
    /\ loc' = [loc EXCEPT ![p] = NoLoc]
    /\ IF get_attendance_by_id(attendance, id)
       THEN pc' = [pc EXCEPT ![p] = "d_delete"] /\ res' = [res EXCEPT ![p] = NoRes]
       ELSE Finish(p, "NotFound", {})
    /\ UNCHANGED <<attendance, nextId, dirs, now>>

\* variant: delete_many on the parent of the record
DeleteApply_parent(p) ==
    /\ pc[p] = "d_delete"
    /\ attendance' = {d \in attendance :
                         \A e \in attendance : e.id = req[p].id => d.parent_id # e.parent_id}
    /\ Finish(p, "ok", {d.id : d \in {e \in attendance : e.id = req[p].id}})
    /\ UNCHANGED <<nextId, dirs, now, req, loc>>

\* AttendanceService.delete_attendance: delete_one; the handler answers 204
\* whatever the service returns; ids of the response holds the document
\* delete_one counted as deleted (empty when the service returns False)
DeleteApply(p) ==
    /\ pc[p] = "d_delete"
    /\ attendance' = {d \in attendance : d.id # req[p].id}
    /\ Finish(p, "ok", {d.id : d \in {e \in attendance : e.id = req[p].id}})
    /\ UNCHANGED <<nextId, dirs, now, req, loc>>

\* the response is delivered and the slot serves the next request
Return(p) ==
    /\ pc[p] = "done"
    /\ pc' = [pc EXCEPT ![p] = "idle"]
    /\ req' = [req EXCEPT ![p] = NoReq]
    /\ loc' = [loc EXCEPT ![p] = NoLoc]
    /\ res' = [res EXCEPT ![p] = NoRes]
    /\ UNCHANGED <<attendance, nextId, dirs, now>>

(* --------------------------- specifications ---------------------------- *)
\* item lists of at most n items over the users U with the statuses S
ItemListsOver(U, S, n) ==
    UNION {[1..k -> [user_id : U, status : S]] : k \in 0..n}

\* the steps of a POST /attendance of slot p, its inputs drawn from users U,
\* parents Q, parent types T and statuses S
CreateStep(p, U, Q, T, S) ==
    \/ \E u \in U, q \in Q, t \in T, s \in S : CreateCheck(p, u, q, t, s)
    \/ CreateValidate(p)
    \/ CreateInsert(p)
    \/ CreateFetch(p)

\* the steps of a POST /attendance/bulk, batches of at most n items
BulkStep(p, U, Q, T, S, n) ==
    \/ \E q \in Q, t \in T, items \in ItemListsOver(U, S, n) : BulkStart(p, q, t, items)
    \/ BulkCheck(p)
    \/ BulkPrepare(p)
    \/ BulkInsert(p)
    \/ BulkFetch(p)

\* the steps of a PUT /attendance/{id}, its update input drawn from V
UpdateStep(p, V) ==
    \/ \E id \in 1..MaxId, update \in V : UpdateCheck(p, id, update)
    \/ UpdateApply(p)
    \/ UpdateFetch(p)

\* the steps of a DELETE /attendance/{id}
DeleteStep(p) ==
    \/ \E id \in 1..MaxId : DeleteCheck(p, id)
    \/ DeleteApply(p)

\* the steps of request slot p, its inputs drawn from users U, parents Q,
\* parent types T, statuses S of new records, update inputs V, batches of
\* at most n items
Step(p, U, Q, T, S, V, n) ==
    \/ CreateStep(p, U, Q, T, S)
    \/ BulkStep(p, U, Q, T, S, n)
    \/ UpdateStep(p, V)
    \/ DeleteStep(p)
    \/ Return(p)

\* concurrent requests about one event, from an existing and a missing user
Next == \E p \in Procs : Step(p, {"u1", "u3"}, {"p1"}, {"event"}, {"present"},
                            StatusUpdates({"absent"}), MaxConcBatch)

Spec == Init /\ [][Next]_vars

\* one request at a time, about "p1" taken as an event or as a meeting, with
\* malformed identifiers among the inputs
NextSeq == Step("r1", {"u1", "u2", BadId}, {"p1", BadId}, ParentTypes,
                {"present"}, StatusUpdates({"absent"}), MaxBatch)

SpecSeq == Init /\ [][NextSeq]_vars

\* time passes: the clock moves to a later instant of T
Tick(T) ==
    /\ \E t \in T : ~DateLeq(t, now) /\ now' = t
    /\ UNCHANGED <<attendance, nextId, dirs, pc, req, loc, res>>

\* update inputs over every field of the record that an update model can
\* name: the mutable ones alone, the immutable ones alone, and all of them
RecUpdates ==
    StatusUpdates(AttendanceStatus) \cup
    {[notes |-> "n1", question_id |-> "q1"],
     [user_id |-> "u3"],
     [status |-> "late", notes |-> "n1", question_id |-> "q1", user_id |-> "u3",
      parent_id |-> "p2", parent_type |-> "meeting", created_at |-> Date(2023, 2, 10)]}

\* one request at a time on the records of two users of one event, while
\* time passes: create, update with RecUpdates, delete
NextRec ==
    \/ CreateStep("r1", {"u1", "u2"}, {"p1"}, {"event"}, {"present"})
    \/ UpdateStep("r1", RecUpdates)
    \/ DeleteStep("r1")
    \/ Return("r1")
    \/ Tick({Date(2023, 1, 1)})

SpecRec == Init /\ [][NextRec]_vars

(* ----------------------- GET /attendance/stats ------------------------- *)
\* the query get_attendance_stats builds: the parent is a filter only when
\* parent_id and parent_type are both given
stats_query(parent_id, parent_type, start_date, end_date) ==
    [parent_id   |-> IF parent_id # None /\ parent_type # None
                     THEN ObjectId(parent_id) ELSE None,
     parent_type |-> IF parent_id # None /\ parent_type # None
                     THEN parent_type ELSE None,
     start_date  |-> start_date,
     end_date    |-> end_date]

\* the documents of the store a query with these keys matches
find(store, query) ==
    {d \in store :
        /\ query.parent_id # None => d.parent_id = query.parent_id
        /\ query.parent_type # None => d.parent_type = query.parent_type
        /\ query.start_date # NoDate => DateLeq(query.start_date, d.created_at)
        /\ query.end_date # NoDate => DateLeq(d.created_at, query.end_date)}

\* the count of status s in the result of the $group by status
status_counts(store, query, s) == Cardinality({d \in find(store, query) : d.status = s})

\* Python's round() of the quotient n / d of two naturals to an integer:
\* to the nearest, a tie to the even neighbour
round_half_even(n, d) ==
    LET q == n \div d
        r == n % d
    IN IF 2 * r < d THEN q
       ELSE IF 2 * r > d THEN q + 1
       ELSE IF q % 2 = 0 THEN q ELSE q + 1

\* variant: the quotient is truncated
percentage_truncated(present_count, total) ==
    IF total > 0 THEN (present_count * 10000) \div total ELSE 0

\* round((present_count / total * 100) if total > 0 else 0.0, 2), in
\* hundredths of a percent
percentage(present_count, total) ==
    IF total > 0 THEN round_half_even(present_count * 10000, total) ELSE 0

AttendanceStats(total, present, absent, late, excused) ==
    [total |-> total, present |-> present, absent |-> absent, late |-> late,
     excused |-> excused, percentage |-> percentage(present, total)]

\* routes/attendance.py get_attendance_stats calls the service, which builds
\* its query and runs count_documents; user_id is a parameter of the handler
\* that the service does not have
StatsCount(p, parent_id, parent_type, user_id, start_date, end_date) ==
    /\ pc[p] = "idle"
    /\ req' = [req EXCEPT ![p] = [op |-> "stats", parent_id |-> parent_id,
                                  parent_type |-> parent_type, user_id |-> user_id,
                                  start_date |-> start_date, end_date |-> end_date]]
    /\ IF parent_id # None /\ parent_type # None /\ ~IsValidObjectId(parent_id)
       THEN /\ pc' = [pc EXCEPT ![p] = "done"]
            /\ res' = [res EXCEPT ![p] = [kind |-> "ok", ids |-> {},
                                          stats |-> AttendanceStats(0, 0, 0, 0, 0)]]
            /\ loc' = [loc EXCEPT ![p] = NoLoc]
       ELSE /\ pc' = [pc EXCEPT ![p] = "s_aggregate"]
            /\ res' = [res EXCEPT ![p] = NoRes]
            /\ loc' = [loc EXCEPT ![p] =
                         [NoLoc EXCEPT !.total =
                            Cardinality(find(attendance,
                                             stats_query(parent_id, parent_type,
                                                         start_date, end_date)))]]
    /\ UNCHANGED <<attendance, nextId, dirs, now>>

\* the aggregate of get_attendance_stats, a second command on the collection
StatsAggregate(p) ==
    /\ pc[p] = "s_aggregate"
    /\ LET query == stats_query(req[p].parent_id, req[p].parent_type,
                                req[p].start_date, req[p].end_date)
       IN res' = [res EXCEPT ![p] =
                    [kind |-> "ok", ids |-> {},
                     stats |-> AttendanceStats(loc[p].total,
                                               status_counts(attendance, query, "present"),
                                               status_counts(attendance, query, "absent"),
                                               status_counts(attendance, query, "late"),
                                               status_counts(attendance, query, "excused"))]]
    /\ pc' = [pc EXCEPT ![p] = "done"]
    /\ UNCHANGED <<attendance, nextId, dirs, now, req, loc>>

\* the steps of a GET /attendance/stats, its filters drawn from parents Q,
\* parent types T, users U and instants D (None and NoDate: not given)
StatsStep(p, Q, T, U, D) ==
    \/ \E q \in Q, t \in T, u \in U, a \in D, b \in D : StatsCount(p, q, t, u, a, b)
    \/ StatsAggregate(p)

\* the statistics of all records are asked for while another request slot
\* creates, updates and deletes records
NextStatsConc ==
    \/ StatsStep("r1", {None}, {None}, {None}, {NoDate})
    \/ Return("r1")
    \/ Step("r2", {"u1", "u2"}, {"p1"}, {"event"}, {"present"},
            StatusUpdates({"absent"}), MaxConcBatch)

SpecStatsConc == Init /\ [][NextStatsConc]_vars

\* ids of users that only bulk creation, which looks no user up, can record
UserIds == <<"u1", "u2", "u3", "u4", "u5", "u6", "u7", "u8">>

\* the status of the i-th record of a store with c[s] records of status s,
\* present ones first, then absent, late and excused ones
StatusOf(c, i) ==
    IF i <= c["present"] THEN "present"
    ELSE IF i <= c["present"] + c["absent"] THEN "absent"
    ELSE IF i <= c["present"] + c["absent"] + c["late"] THEN "late"
    ELSE "excused"

\* a store as creates leave it: c[s] records of status s for the event "p1",
\* created at the start, and m present records for the meeting "p2",
\* created on 2023-01-05
StoreOf(c, m) ==
    LET n == c["present"] + c["absent"] + c["late"] + c["excused"] IN
    {NewDocAt(i, UserIds[i], "p1", "event", StatusOf(c, i), Today) : i \in 1..n}
    \cup {NewDocAt(n + j, UserIds[j], "p2", "meeting", "present", Date(2023, 1, 5))
            : j \in 1..m}

\* the service runs on a store of at most MaxDocs records of an event and at
\* most one of a meeting
InitStats ==
    /\ \E c \in [AttendanceStatus -> 0..MaxDocs], m \in 0..1 :
          /\ c["present"] + c["absent"] + c["late"] + c["excused"] <= MaxDocs
          /\ attendance = StoreOf(c, m)
          /\ nextId = Cardinality(StoreOf(c, m)) + 1
    /\ users = {"u1", "u2"}
    /\ events = {"p1"}
    /\ meetings = {"p2"}
    /\ pc = [p \in Procs |-> "idle"]
    /\ req = [p \in Procs |-> NoReq]
    /\ loc = [p \in Procs |-> NoLoc]
    /\ res = [p \in Procs |-> NoRes]
    /\ now = Date(2023, 2, 10)

\* one request at a time asks for statistics, with every combination of the
\* filters
NextStats ==
    \/ StatsStep("r1", {None, "p1", "p2", BadId}, {None, "event", "meeting"},
                 {None, "u1"}, {NoDate, Date(2023, 1, 1)})
    \/ Return("r1")

SpecStats == InitStats /\ [][NextStats]_vars

(* ---------------------- GET /attendance/summary ------------------------ *)
\* variant: {"$sort": {"_id": -1}}
RECURSIVE sort_descending(_)
sort_descending(keys) ==
    IF keys = {} THEN <<>>
    ELSE LET m == CHOOSE k \in keys : \A j \in keys : j = k \/ KeyLess(j, k)
         IN <<m>> \o sort_descending(keys \ {m})

\* {"$sort": {"_id": 1}} on the keys of the groups
RECURSIVE sort_ascending(_)
sort_ascending(keys) ==
    IF keys = {} THEN <<>>
    ELSE LET m == CHOOSE k \in keys : \A j \in keys : j = k \/ KeyLess(k, j)
         IN <<m>> \o sort_ascending(keys \ {m})

\* variant: the pipeline has no $match
summary_match_all(store, parent_type_filter, start_date, end_date) == store

\* the $match of the summary pipeline
summary_match(store, parent_type_filter, start_date, end_date) ==
    find(store, [parent_id |-> None, parent_type |-> parent_type_filter,
                 start_date |-> start_date, end_date |-> end_date])

\* the AttendanceSummaryItem of the group with the given key
summary_item(matched, period, key) ==
    LET group == {d \in matched : dateToString(period, d.created_at) = key}
        count(s) == Cardinality({d \in group : d.status = s})
    IN [period |-> key, total |-> Cardinality(group),
        present |-> count("present"), absent |-> count("absent"),
        late |-> count("late"), excused |-> count("excused"),
        percentage |-> percentage(count("present"), Cardinality(group))]

\* AttendanceService.get_attendance_summary for a valid period
get_attendance_summary(store, parent_type_filter, start_date, end_date, period) ==
    LET matched == summary_match(store, parent_type_filter, start_date, end_date)
        keys == sort_ascending({format_fields(period, d.created_at) : d \in matched})
    IN [i \in 1..Len(keys) |-> summary_item(matched, period, join_fields(keys[i]))]

\* routes/attendance.py get_attendance_summary: one aggregate on the
\* collection, or the ValueError of an unknown period
Summary(p, parent_type, start_date, end_date, period) ==
    /\ pc[p] = "idle"
    /\ req' = [req EXCEPT ![p] = [op |-> "summary", parent_type |-> parent_type,
                                  start_date |-> start_date, end_date |-> end_date,
                                  period |-> period]]
    /\ loc' = [loc EXCEPT ![p] = NoLoc]
    /\ pc' = [pc EXCEPT ![p] = "done"]
    /\ res' = [res EXCEPT ![p] =
                 IF period \notin {"daily", "weekly", "monthly"}
                 THEN [kind |-> "InvalidArgument", ids |-> {}]
                 ELSE [kind |-> "ok", ids |-> {},
                       list |-> get_attendance_summary(attendance, parent_type,
                                                       start_date, end_date, period)]]
    /\ UNCHANGED <<attendance, nextId, dirs, now>>

\* one request at a time while time passes: present and absent records of
\* an event and of a meeting are created, and summaries are asked for with
\* every period
NextSum ==
    \/ CreateStep("r1", {"u1", "u2"}, {"p1", "p2"}, ParentTypes, {"present", "absent"})
    \/ \E t \in {None, "event"}, a \in {NoDate, Date(2023, 1, 1)},
          b \in {NoDate, Date(2023, 1, 5)},
          period \in {"daily", "weekly", "monthly", "yearly"} :
            Summary("r1", t, a, b, period)
    \/ Return("r1")
    \/ Tick(Instants)

SpecSum == Init /\ [][NextSum]_vars

(* ------------- GET /attendance/not-attended/{type}/{id} ---------------- *)
\* [uid_str for uid_str in expected_user_ids if uid_str not in attended]
RECURSIVE not_in(_, _)
not_in(expected_user_ids, attended) ==
    IF expected_user_ids = <<>> THEN <<>>
    ELSE IF Head(expected_user_ids) \in attended
         THEN not_in(Tail(expected_user_ids), attended)
         ELSE <<Head(expected_user_ids)>> \o not_in(Tail(expected_user_ids), attended)

\* AttendanceService.get_not_attended_users
get_not_attended_users(store, parent_id, parent_type, expected_user_ids) ==
    IF expected_user_ids = <<>> THEN <<>>
    ELSE IF ~IsValidObjectId(parent_id) THEN expected_user_ids
    ELSE LET expected_obj_ids ==
                 {ObjectId(expected_user_ids[i]) :
                    i \in {j \in DOMAIN expected_user_ids :
                             IsValidObjectId(expected_user_ids[j])}}
             attended_user_ids_set ==
                 {d.user_id : d \in {e \in store :
                                        /\ e.parent_id = ObjectId(parent_id)
                                        /\ e.parent_type = parent_type
                                        /\ e.user_id \in expected_obj_ids
                                        /\ e.status = "present"}}
         IN not_in(expected_user_ids, attended_user_ids_set)

\* routes/attendance.py get_not_attended_users: one find on the collection
NotAttended(p, parent_id, parent_type, user_ids) ==
    /\ pc[p] = "idle"
    /\ req' = [req EXCEPT ![p] = [op |-> "not_attended", parent_id |-> parent_id,
                                  parent_type |-> parent_type, user_ids |-> user_ids]]
    /\ loc' = [loc EXCEPT ![p] = NoLoc]
    /\ pc' = [pc EXCEPT ![p] = "done"]
    /\ res' = [res EXCEPT ![p] =
                 [kind |-> "ok", ids |-> {},
                  list |-> get_not_attended_users(attendance, parent_id, parent_type,
                                                  user_ids)]]
    /\ UNCHANGED <<attendance, nextId, dirs, now>>

\* lists of at most n user ids of U
IdListsOver(U, n) == UNION {[1..k -> U] : k \in 0..n}

\* one request at a time: the records of two users of one event are created,
\* marked absent and deleted, and the absentees are asked for with lists of
\* well-formed, malformed and upper-case ids
NextAbs ==
    \/ CreateStep("r1", {"u1", "u2"}, {"p1"}, {"event"}, {"present"})
    \/ UpdateStep("r1", StatusUpdates({"absent"}))
    \/ DeleteStep("r1")
    \/ \E q \in {"p1", BadId}, t \in ParentTypes,
          ids \in IdListsOver({"u1", UpperId, "u2", "u3", BadId}, MaxBatch) :
            NotAttended("r1", q, t, ids)
    \/ Return("r1")

SpecAbs == Init /\ [][NextAbs]_vars

(* --------------------------- GET /attendance --------------------------- *)
\* the most records a store under a listing holds
MaxList == 3

\* limit: int = 100 of the handler
DefaultLimit == 100

\* a filter document: None and NoDate where the key is absent
Filters(user_id, parent_id, parent_type, status, question_id, submitted_by, start_date, end_date) ==
    [user_id |-> user_id, parent_id |-> parent_id, parent_type |-> parent_type,
     status |-> status, question_id |-> question_id, submitted_by |-> submitted_by,
     start_date |-> start_date, end_date |-> end_date]

\* collection.find(query): the documents that match every key of the query
find_filtered(store, query) ==
    {d \in store :
        /\ query.user_id # None => d.user_id = query.user_id
        /\ query.parent_id # None => d.parent_id = query.parent_id
        /\ query.parent_type # None => d.parent_type = query.parent_type
        /\ query.status # None => d.status = query.status
        /\ query.question_id # None => d.question_id = query.question_id
        /\ query.submitted_by # None => d.submitted_by = query.submitted_by
        /\ query.start_date # NoDate => DateLeq(query.start_date, d.created_at)
        /\ query.end_date # NoDate => DateLeq(d.created_at, query.end_date)}

\* .sort("created_at", -1): the orders the cursor can give the documents S,
\* newest first, documents of one instant in any order
sort_created_at(S) ==
    {s \in [1..Cardinality(S) -> S] :
        \A i, j \in 1..Cardinality(S) :
            i < j => /\ s[i] # s[j]
                     /\ DateLeq(s[j].created_at, s[i].created_at)}

\* .skip(skip).limit(limit) of a cursor: a limit of 0 is no limit
skip_limit(s, skip, limit) ==
    SubSeq(s, skip + 1,
           IF limit = 0 \/ skip + limit > Len(s) THEN Len(s) ELSE skip + limit)

\* the query of AttendanceService.list_attendance
list_query(user_id, parent_id, parent_type, status, start_date, end_date) ==
    Filters(IF user_id = None THEN None ELSE ObjectId(user_id),
            IF parent_id = None THEN None ELSE ObjectId(parent_id),
            parent_type, status, None, None, start_date, end_date)

\* AttendanceService.list_attendance: one find on the collection
ListAttendance(p, skip, limit, user_id, parent_id, parent_type, status, start_date, end_date) ==
    /\ pc[p] = "idle"
    /\ req' = [req EXCEPT ![p] =
                 [op |-> "list", skip |-> skip, limit |-> limit,
                  filters |-> Filters(user_id, parent_id, parent_type, status,
                                      None, None, start_date, end_date)]]
    /\ loc' = [loc EXCEPT ![p] = NoLoc]
    /\ pc' = [pc EXCEPT ![p] = "done"]
    /\ IF (user_id # None /\ ~IsValidObjectId(user_id))
          \/ (parent_id # None /\ ~IsValidObjectId(parent_id))
       THEN res' = [res EXCEPT ![p] = [kind |-> "ok", ids |-> {}, list |-> <<>>]]
       ELSE \E s \in sort_created_at(
                       find_filtered(attendance,
                                     list_query(user_id, parent_id, parent_type,
                                                status, start_date, end_date))) :
               res' = [res EXCEPT ![p] = [kind |-> "ok", ids |-> {},
                                          list |-> skip_limit(s, skip, limit)]]
    /\ UNCHANGED <<attendance, nextId, dirs, now>>

\* the filters the handler prepares: a key for every parameter given, and
\* one created_at key, which the end date takes when there is one
list_filters(user_id, parent_id, parent_type, status, question_id, submitted_by, start_date, end_date) ==
    Filters(user_id, parent_id, parent_type, status, question_id, submitted_by,
            IF end_date # NoDate THEN NoDate ELSE start_date, end_date)

\* get_multi(skip, limit, filters) of the service the handler imports: the
\* records that match the filters, newest first, paginated
get_multi(store, skip, limit, filters) ==
    {skip_limit(s, skip, limit) : s \in sort_created_at(find_filtered(store, filters))}

\* routes/attendance.py list_attendance
ListRoute(p, skip, limit, user_id, parent_id, parent_type, status, question_id, submitted_by, start_date, end_date) ==
    /\ pc[p] = "idle"
    /\ req' = [req EXCEPT ![p] =
                 [op |-> "list_route", skip |-> skip, limit |-> limit,
                  filters |-> Filters(user_id, parent_id, parent_type, status,
                                      question_id, submitted_by, start_date,
                                      end_date)]]
    /\ loc' = [loc EXCEPT ![p] = NoLoc]
    /\ pc' = [pc EXCEPT ![p] = "done"]
    /\ IF (parent_type # None /\ parent_type \notin ParentTypes)
          \/ (status # None /\ status \notin AttendanceStatus)
       THEN res' = [res EXCEPT ![p] = [kind |-> "InvalidArgument", ids |-> {}]]
       ELSE \E l \in get_multi(attendance, skip, limit,
                               list_filters(user_id, parent_id, parent_type, status,
                                            question_id, submitted_by, start_date,
                                            end_date)) :
               res' = [res EXCEPT ![p] = [kind |-> "ok", ids |-> {}, list |-> l]]
    /\ UNCHANGED <<attendance, nextId, dirs, now>>

(* ---------------------- GET /attendance/{id} --------------------------- *)
\* variant: the record found is taken out of the collection
GetById_evict(p, id) ==
    /\ pc[p] = "idle"
    /\ req' = [req EXCEPT ![p] = [op |-> "get", id |-> id]]
    /\ loc' = [loc EXCEPT ![p] = NoLoc]
    /\ Finish(p, IF get_attendance_by_id(attendance, id) THEN "ok" ELSE "NotFound",
              {d.id : d \in {e \in attendance : e.id = id}})
    /\ attendance' = {d \in attendance : d.id # id}
    /\ UNCHANGED <<nextId, dirs, now>>

\* routes/attendance.py get_attendance: get_attendance_by_id, 404 for None
GetById(p, id) ==
    /\ pc[p] = "idle"
    /\ req' = [req EXCEPT ![p] = [op |-> "get", id |-> id]]
    /\ loc' = [loc EXCEPT ![p] = NoLoc]
    /\ Finish(p, IF get_attendance_by_id(attendance, id) THEN "ok" ELSE "NotFound",
              {d.id : d \in {e \in attendance : e.id = id}})
    /\ UNCHANGED <<attendance, nextId, dirs, now>>

\* AttendanceService.get_attendance_by_user_and_parent as an operation of
\* its own: the record find_one gives, or None
GetByUserAndParent(p, user_id, parent_id, parent_type) ==
    /\ pc[p] = "idle"
    /\ req' = [req EXCEPT ![p] = [op |-> "get_by_user_and_parent",
                                  user_id |-> user_id, parent_id |-> parent_id,
                                  parent_type |-> parent_type]]
    /\ loc' = [loc EXCEPT ![p] = NoLoc]
    /\ IF get_attendance_by_user_and_parent(attendance, user_id, parent_id, parent_type)
       THEN \E d \in attendance :
               /\ d.user_id = user_id /\ d.parent_id = parent_id
               /\ d.parent_type = parent_type
               /\ Finish(p, "ok", {d.id})
       ELSE Finish(p, "None", {})
    /\ UNCHANGED <<attendance, nextId, dirs, now>>

(* ------------------------- the read operations ------------------------- *)
\* the instants of the records of a listed store
ListInstants == <<Date(2022, 12, 31), Date(2023, 1, 5), Date(2023, 2, 10)>>

\* a store as creates leave it: n records of u1 and u2 for the event "p1"
\* and then for the meeting "p2", the i-th of status st[i], created at
\* instant at[i]
ListStoreOf(n, st, at) ==
    {NewDocAt(i, UserIds[((i - 1) % 2) + 1],
              IF i <= 2 THEN "p1" ELSE "p2", IF i <= 2 THEN "event" ELSE "meeting",
              st[i], ListInstants[at[i]]) : i \in 1..n}

\* the service runs on a store of at most MaxList records, created in the
\* order of their ids
InitList ==
    /\ \E n \in 0..MaxList :
         \E st \in [1..n -> {"present", "absent"}], at \in [1..n -> DOMAIN ListInstants] :
            /\ \A i, j \in 1..n : i < j => at[i] <= at[j]
            /\ attendance = ListStoreOf(n, st, at)
            /\ nextId = n + 1
    /\ users = {"u1", "u2"}
    /\ events = {"p1"}
    /\ meetings = {"p2"}
    /\ pc = [p \in Procs |-> "idle"]
    /\ req = [p \in Procs |-> NoReq]
    /\ loc = [p \in Procs |-> NoLoc]
    /\ res = [p \in Procs |-> NoRes]
    /\ now = Date(2023, 2, 10)

\* the date ranges asked for: none, one bound, both, and an end before the
\* start
DateRanges ==
    {<<NoDate, NoDate>>, <<Date(2023, 1, 5), NoDate>>, <<NoDate, Date(2023, 1, 5)>>,
     <<Date(2023, 1, 5), Date(2023, 2, 10)>>, <<Date(2023, 1, 5), Date(2023, 1, 1)>>}

\* one request at a time reads the store, through every read operation,
\* and records are created in between
NextList ==
    \/ \E skip \in 0..2, limit \in 0..2, u \in {None, "u1", BadId},
          t \in {None, "meeting"}, s \in {None, "present"}, r \in DateRanges :
            ListAttendance("r1", skip, limit, u, None, t, s, r[1], r[2])
    \/ \E u \in {None, "u1"}, t \in {None, "club"},
          s \in {None, "gone"}, q \in {None, "q1"},
          b \in {None, CurrentUser}, r \in DateRanges :
            ListRoute("r1", 0, DefaultLimit, u, None, t, s, q, b, r[1], r[2])
    \/ \E id \in 1..MaxList + 1 : GetById("r1", id)
    \/ \E u \in {"u1", BadId}, q \in {"p1", "p2"}, t \in ParentTypes :
            GetByUserAndParent("r1", u, q, t)
    \/ \E r \in DateRanges : StatsCount("r1", None, None, None, r[1], r[2])
    \/ StatsAggregate("r1")
    \/ \E r \in DateRanges, period \in {"daily", "yearly"} :
            Summary("r1", None, r[1], r[2], period)
    \/ \E ids \in IdListsOver({"u1", "u2"}, 1) : NotAttended("r1", "p1", "event", ids)
    \/ CreateStep("r1", {"u2"}, {"p1"}, {"event"}, {"present"})
    \/ Return("r1")

SpecList == InitList /\ [][NextList]_vars

\* one request at a time about the one tuple (u1, p1, event), while time
\* passes: its record is created, deleted and created again
NextAgain ==
    \/ CreateStep("r1", {"u1"}, {"p1"}, {"event"}, {"present", "absent"})
    \/ DeleteStep("r1")
    \/ Return("r1")
    \/ Tick(Instants)

SpecAgain == Init /\ [][NextAgain]_vars

\* one request slot creates and updates the records of two users of an
\* event while the other deletes and updates them
NextUpdDel ==
    \/ CreateStep("r1", {"u1", "u2"}, {"p1"}, {"event"}, {"present"})
    \/ UpdateStep("r1", StatusUpdates({"absent"}))
    \/ Return("r1")
    \/ DeleteStep("r2")
    \/ UpdateStep("r2", StatusUpdates({"late"}))
    \/ Return("r2")

SpecUpdDel == Init /\ [][NextUpdDel]_vars

\* one request at a time: records are created, one by one and in bulk,
\* their status is updated to every value AttendanceUpdate accepts, the
\* four of the enum and null, and the statistics of all records are asked
\* for
NextStatus ==
    \/ CreateStep("r1", {"u1", "u2"}, {"p1"}, {"event"}, {"present", "late"})
    \/ BulkStep("r1", {"u1", "u2"}, {"p1"}, {"event"}, {"absent"}, MaxConcBatch)
    \/ UpdateStep("r1", StatusUpdates(AttendanceStatus \cup {None}))
    \/ StatsStep("r1", {None}, {None}, {None}, {NoDate})
    \/ Return("r1")

SpecStatus == Init /\ [][NextStatus]_vars

(* ======================================================================= *)
(*                               properties                                *)
(* ======================================================================= *)
\* documents of the store for the tuple (user_id, parent_id, parent_type)
DocsFor(user_id, parent_id, parent_type) ==
    {d \in attendance : /\ d.user_id = user_id
                        /\ d.parent_id = parent_id
                        /\ d.parent_type = parent_type}

\* documents of the store request p inserted
OwnDocs(p) == {d \in attendance : d.id \in loc[p].ins}

IsDone(p, op) == pc[p] = "done" /\ req[p].op = op

(* ---- C1 --------------------------------------------------------------- *)
\* C1: after any sequence of create, bulkCreate, update and delete the
\* store holds at most one record for each (userId, parentId, parentType).
C1_UniqueTuple ==
    \A d, e \in attendance :
        (d.user_id = e.user_id /\ d.parent_id = e.parent_id
            /\ d.parent_type = e.parent_type) => d.id = e.id

(* ---- C2 --------------------------------------------------------------- *)
\* C2: two create calls for the same tuple that overlap never both
\* succeed: they do not both answer with a record while both records are
\* stored, and the tuple has one record.
C2_ConcurrentCreateOneWins ==
    \A p, q \in Procs :
        (/\ p # q
         /\ req[p].op = "create" /\ req[q].op = "create"
         /\ req[p].user_id = req[q].user_id
         /\ req[p].parent_id = req[q].parent_id
         /\ req[p].parent_type = req[q].parent_type
         /\ OwnDocs(p) # {} /\ OwnDocs(q) # {})
        => /\ ~(res[p].kind = "ok" /\ res[q].kind = "ok")
           /\ Cardinality(DocsFor(req[p].user_id, req[p].parent_id,
                                  req[p].parent_type)) = 1

(* ---- C3 --------------------------------------------------------------- *)
\* C3: a create call that arrives while its tuple has a stored record
\* answers Conflict and leaves the store as it was.
C3_DuplicateCreateConflicts ==
    [][\A p \in Procs :
          (/\ pc[p] = "idle" /\ pc'[p] # "idle"
           /\ req'[p].op = "create"
           /\ DocsFor(req'[p].user_id, req'[p].parent_id, req'[p].parent_type) # {})
          => (/\ pc'[p] = "done"
              /\ res'[p].kind = "Conflict"
              /\ attendance' = attendance)]_vars

\* a create was answered Conflict while the record of its tuple is stored
C3_Witness ==
    \E p \in Procs :
        /\ IsDone(p, "create")
        /\ res[p].kind = "Conflict"
        /\ DocsFor(req[p].user_id, req[p].parent_id, req[p].parent_type) # {}

(* ---- C4 --------------------------------------------------------------- *)
\* the directory parent_type selects holds parent_id
ParentResolves(parent_id, parent_type) ==
    \/ parent_type = "event" /\ parent_id \in events
    \/ parent_type = "meeting" /\ parent_id \in meetings

\* C4: a create whose (well-formed) userId names no user, or whose parentId
\* is not in the directory parentType selects, answers NotFound and
\* inserts nothing.
C4_CreateMissingRefNotFound ==
    \A p \in Procs :
        (/\ IsDone(p, "create")
         /\ req[p].user_id # BadId /\ req[p].parent_id # BadId
         /\ \/ req[p].user_id \notin users
            \/ ~ParentResolves(req[p].parent_id, req[p].parent_type))
        => (res[p].kind = "NotFound" /\ loc[p].ins = {})

C6_RecordsResolve ==
    \A d \in attendance :
        d.user_id \in users /\ ParentResolves(d.parent_id, d.parent_type)

(* ---- C7 --------------------------------------------------------------- *)
\* the store as it was when the (only) request in flight arrived
StoreBefore(p) == attendance \ OwnDocs(p)

\* items of the batch of p whose tuple had a record before the call
DuplicateItems(p) ==
    {i \in 1..Len(req[p].items) :
        \E d \in StoreBefore(p) : /\ d.user_id = req[p].items[i].user_id
                                  /\ d.parent_id = req[p].parent_id
                                  /\ d.parent_type = req[p].parent_type}

\* every identifier of the batch is well formed
WellFormedBatch(p) ==
    /\ req[p].parent_id # BadId
    /\ \A i \in 1..Len(req[p].items) : req[p].items[i].user_id # BadId

C8_BulkReturnsInserted ==
    IsDone("r1", "bulk") => res["r1"].ids = {d.id : d \in OwnDocs("r1")}

(* ---- C9 --------------------------------------------------------------- *)
\* items of the batch of p that are well formed and were not skipped
WantedItems(p) ==
    {i \in 1..Len(req[p].items) :
        /\ req[p].items[i].user_id # BadId
        /\ req[p].parent_id # BadId
        /\ i \notin loc[p].skipped}

C10_BulkNeverFailsOnItems ==
    (/\ IsDone("r1", "bulk")
     /\ Len(req["r1"].items) >= 1
     /\ WantedItems("r1") = {})
    => /\ res["r1"].kind = "ok"
       /\ res["r1"].ids = {}
       /\ loc["r1"].ins = {}

(* ------------------------- update and delete --------------------------- *)
\* the fields an update is allowed to change
MutableFields == {"status", "notes", "question_id", "updated_at"}

C12_AnyStatusTransition ==
    [][\A p \in Procs :
        (/\ pc'[p] # pc[p] /\ pc[p] \in {"u_update", "u_fetch"}
         /\ "status" \in DOMAIN req[p].update
         /\ get_attendance_by_id(attendance, req[p].id)) =>
            /\ \E e \in attendance' : /\ e.id = req[p].id
                                      /\ e.status = req[p].update.status
            /\ \/ pc'[p] = "u_fetch"
               \/ pc'[p] = "done" /\ res'[p].kind = "ok" /\ res'[p].ids = {req[p].id}]_vars

\* an update of the status has succeeded on a record that carries notes
C12_Witness ==
    \E p \in Procs :
        /\ IsDone(p, "update") /\ res[p].kind = "ok"
        /\ "status" \in DOMAIN req[p].update
        /\ req[p].update.status = "absent"
        /\ \E d \in attendance : /\ d.id = req[p].id
                                 /\ d.status = "absent"
                                 /\ d.notes = "n1"

\* C13: a delete request that finds the record of its id answers success
\* having removed that record and no other, so that the id has no record;
\* one that finds no record answers NotFound; in both cases no other step of
\* the request changes the store
C13_DeleteFrame ==
    [][\A p \in Procs :
        (pc'[p] # pc[p] /\ req'[p].op = "delete") =>
            IF pc'[p] # "done" THEN attendance' = attendance
            ELSE IF get_attendance_by_id(attendance, req'[p].id)
            THEN /\ res'[p].kind = "ok" /\ res'[p].ids = {req'[p].id}
                 /\ attendance' = {d \in attendance : d.id # req'[p].id}
                 /\ ~get_attendance_by_id(attendance', req'[p].id)
            ELSE /\ res'[p].kind = "NotFound"
                 /\ attendance' = attendance]_vars

\* a delete has removed one of two records
C13_Witness ==
    \E p \in Procs :
        /\ IsDone(p, "delete") /\ res[p].kind = "ok" /\ res[p].ids = {req[p].id}
        /\ ~get_attendance_by_id(attendance, req[p].id)
        /\ attendance # {}

(* --------------------------- create, then get -------------------------- *)
\* C14: once a create has answered with a record, and for as long as that
\* record is in the store as it was created, it carries the field values of
\* the input and it is the only document the lookup by (user_id, parent_id,
\* parent_type) can return, as it is the one the lookup by its id returns
C14_CreateThenGet ==
    \A p \in Procs :
        (IsDone(p, "create") /\ res[p].kind = "ok") =>
            \A d \in attendance :
                (/\ d.id \in res[p].ids
                 /\ d = NewDocAt(d.id, req[p].user_id, req[p].parent_id,
                                 req[p].parent_type, req[p].status, d.created_at)) =>
                    DocsFor(req[p].user_id, req[p].parent_id, req[p].parent_type) = {d}

(* ---------------------------- not attended ----------------------------- *)
\* the record of a user id is the one whose user_id is the ObjectId the id
\* spells
PresentRecord(uid, parent_id, parent_type) ==
    /\ IsValidObjectId(uid) /\ IsValidObjectId(parent_id)
    /\ \E d \in attendance : /\ d.user_id = ObjectId(uid)
                             /\ d.parent_id = ObjectId(parent_id)
                             /\ d.parent_type = parent_type
                             /\ d.status = "present"

\* the elements of a sequence
Range(s) == {s[i] : i \in DOMAIN s}

\* C15: the answer of getNotAttended(parentId, parentType, ids) has as its
\* members exactly the members of ids without a present record for
\* (id, parentId, parentType) in the store, after any creates, updates and
\* deletes
C15_NotAttendedExact ==
    \A p \in Procs :
        IsDone(p, "not_attended") =>
            Range(res[p].list) =
                {uid \in Range(req[p].user_ids) :
                    ~PresentRecord(uid, req[p].parent_id, req[p].parent_type)}

\* the same for lists of ids in lower case
NotAttendedExact_LowerCase ==
    \A p \in Procs :
        (IsDone(p, "not_attended") /\ UpperId \notin Range(req[p].user_ids)) =>
            Range(res[p].list) =
                {uid \in Range(req[p].user_ids) :
                    ~PresentRecord(uid, req[p].parent_id, req[p].parent_type)}

(* ------------------------------ statistics ----------------------------- *)
\* C16: the counts computeStats returns satisfy present + absent + late +
\* excused <= total, also when creates, bulk creates, updates and deletes
\* run at the same time on the same store
C16_StatsSumWithinTotal ==
    \A p \in Procs :
        IsDone(p, "stats") =>
            res[p].stats.present + res[p].stats.absent + res[p].stats.late
                + res[p].stats.excused <= res[p].stats.total

\* |a - b|
Dist(a, b) == IF a >= b THEN a - b ELSE b - a

\* C17: the percentage computeStats returns is 0.0 when total = 0 and
\* otherwise present / total * 100 rounded to two decimals, i.e. no further
\* than half a hundredth from it; a store of 3 present, 1 absent and 1 late
\* records gives total 5, excused 0 and percentage 60.0
C17_StatsPercentage ==
    \A p \in Procs :
        IsDone(p, "stats") =>
            LET st == res[p].stats IN
            /\ st.total = 0 => st.percentage = 0
            /\ st.total > 0 =>
                  2 * Dist(st.percentage * st.total, st.present * 10000) <= st.total
            /\ (/\ attendance = StoreOf([present |-> 3, absent |-> 1, late |-> 1,
                                          excused |-> 0], 0)
                /\ req[p].parent_id \in {None, "p1"}
                /\ req[p].parent_type \in {None, "event"}
                /\ req[p].start_date = NoDate /\ req[p].end_date = NoDate) =>
                  st = [total |-> 5, present |-> 3, absent |-> 1, late |-> 1,
                        excused |-> 0, percentage |-> 6000]

\* statistics of the event "p1" on the store of 3 present, 1 absent and
\* 1 late records have been returned
C17_Witness ==
    \E p \in Procs :
        /\ IsDone(p, "stats")
        /\ req[p].parent_id = "p1" /\ req[p].parent_type = "event"
        /\ req[p].start_date = NoDate /\ req[p].end_date = NoDate
        /\ attendance = StoreOf([present |-> 3, absent |-> 1, late |-> 1,
                                 excused |-> 0], 0)
        /\ res[p].stats.percentage = 6000

\* a record matches the filters that were supplied, each on its own
MatchesSupplied(d, r) ==
    /\ r.parent_id # None => IsValidObjectId(r.parent_id) /\ d.parent_id = ObjectId(r.parent_id)
    /\ r.parent_type # None => d.parent_type = r.parent_type
    /\ r.user_id # None => IsValidObjectId(r.user_id) /\ d.user_id = ObjectId(r.user_id)
    /\ r.start_date # NoDate => DateLeq(r.start_date, d.created_at)
    /\ r.end_date # NoDate => DateLeq(d.created_at, r.end_date)

\* C18: the total and the status counts computeStats returns are those of
\* the records that match every filter supplied, parent_id, parent_type,
\* user_id and the date range, each restricting also when supplied alone
C18_StatsFilters ==
    \A p \in Procs :
        IsDone(p, "stats") =>
            LET counted == {d \in attendance : MatchesSupplied(d, req[p])} IN
            /\ res[p].stats.total = Cardinality(counted)
            /\ \A s \in AttendanceStatus :
                  res[p].stats[s] = Cardinality({d \in counted : d.status = s})

\* the same for requests that give parent_id and parent_type together or
\* not at all, and no user_id
StatsFilters_ParentPairOrDates ==
    \A p \in Procs :
        (/\ IsDone(p, "stats")
         /\ req[p].user_id = None
         /\ (req[p].parent_id = None) = (req[p].parent_type = None)) =>
            LET counted == {d \in attendance : MatchesSupplied(d, req[p])} IN
            /\ res[p].stats.total = Cardinality(counted)
            /\ \A s \in AttendanceStatus :
                  res[p].stats[s] = Cardinality({d \in counted : d.status = s})

(* ------------------------------- summary ------------------------------- *)
\* the records a summary request asks about
SummaryMatched(r) ==
    {d \in attendance :
        /\ r.parent_type # None => d.parent_type = r.parent_type
        /\ r.start_date # NoDate => DateLeq(r.start_date, d.created_at)
        /\ r.end_date # NoDate => DateLeq(d.created_at, r.end_date)}

RECURSIVE SumOfTotals(_)
SumOfTotals(items) ==
    IF items = <<>> THEN 0 ELSE Head(items).total + SumOfTotals(Tail(items))

\* C19: for each period, every record that matches the filter and the date
\* range falls in exactly one returned bucket, each bucket's total is the
\* number of matching records that fall in it, and the totals add up to
\* the number of matching records
C19_SummaryPartition ==
    \A p \in Procs :
        (IsDone(p, "summary") /\ res[p].kind = "ok") =>
            LET items == res[p].list
                matched == SummaryMatched(req[p])
                key(d) == dateToString(req[p].period, d.created_at)
            IN /\ \A d \in matched :
                    Cardinality({i \in DOMAIN items : items[i].period = key(d)}) = 1
               /\ \A i \in DOMAIN items :
                    items[i].total =
                        Cardinality({d \in matched : key(d) = items[i].period})
               /\ SumOfTotals(items) = Cardinality(matched)

\* a monthly summary from 2023-01-01 on has counted its two matching
\* records in one bucket
C19_Witness ==
    \E p \in Procs :
        /\ IsDone(p, "summary") /\ res[p].kind = "ok"
        /\ req[p].period = "monthly" /\ req[p].start_date # NoDate
        /\ Len(res[p].list) = 1
        /\ res[p].list[1].total = 2
        /\ Cardinality(SummaryMatched(req[p])) = 2

\* C20: the entries of a summary are in strictly ascending order of their
\* bucket keys: no key appears twice and the records of an earlier entry
\* are older than those of a later one; the keys are those of the buckets
\* that hold a matching record, and no entry has total = 0
C20_SummaryAscending ==
    \A p \in Procs :
        (IsDone(p, "summary") /\ res[p].kind = "ok") =>
            LET items == res[p].list
                key(d) == dateToString(req[p].period, d.created_at)
            IN
            /\ \A i, j \in DOMAIN items :
                    i < j =>
                        /\ items[i].period # items[j].period
                        /\ \A d, e \in SummaryMatched(req[p]) :
                             (key(d) = items[i].period /\ key(e) = items[j].period)
                                => ~DateLeq(e.created_at, d.created_at)
            /\ {items[i].period : i \in DOMAIN items} =
                    {dateToString(req[p].period, d.created_at) :
                        d \in SummaryMatched(req[p])}
            /\ \A i \in DOMAIN items : items[i].total > 0

\* a weekly summary has returned week 52 of 2022 before week 1 of 2023
C20_Witness ==
    \E p \in Procs :
        /\ IsDone(p, "summary") /\ res[p].kind = "ok"
        /\ req[p].period = "weekly"
        /\ Len(res[p].list) = 2
        /\ res[p].list[1].period = "2022-52"
        /\ res[p].list[2].period = "2023-01"

\* C21: a monthly summary has one bucket per year and month of the
\* matching records, keyed YYYY-MM, and a bucket's total is the number of
\* matching records of that year and month, so two records share a bucket
\* exactly when they share year and month; records of 2023-01-05 and
\* 2023-02-10 give "2023-01" and "2023-02" with total 1 each
C21_MonthlyBuckets ==
    \A p \in Procs :
        (IsDone(p, "summary") /\ res[p].kind = "ok" /\ req[p].period = "monthly") =>
            LET items == res[p].list
                matched == SummaryMatched(req[p])
                YearMonth(d) == ToString(d.created_at.year) \o "-"
                                    \o Pad2(d.created_at.month)
            IN /\ {items[i].period : i \in DOMAIN items} = {YearMonth(d) : d \in matched}
               /\ \A i \in DOMAIN items :
                    items[i].total =
                        Cardinality({d \in matched : YearMonth(d) = items[i].period})
               /\ (/\ Cardinality(matched) = 2
                   /\ {d.created_at : d \in matched} =
                          {Date(2023, 1, 5), Date(2023, 2, 10)}) =>
                     /\ Len(items) = 2
                     /\ items[1].period = "2023-01" /\ items[1].total = 1
                     /\ items[2].period = "2023-02" /\ items[2].total = 1

\* the monthly summary of a record of 2023-01-05 and one of 2023-02-10 has
\* been returned
C21_Witness ==
    \E p \in Procs :
        /\ IsDone(p, "summary") /\ res[p].kind = "ok" /\ req[p].period = "monthly"
        /\ {d.created_at : d \in attendance} = {Date(2023, 1, 5), Date(2023, 2, 10)}
        /\ Cardinality(SummaryMatched(req[p])) = 2
        /\ Len(res[p].list) = 2

\* C22: every item of a summary has the requested granularity name as its
\* period and carries the date of its bucket in a field of its own, and
\* its percentage is present / total * 100 of the item
C22_SummaryItemFields ==
    \A p \in Procs :
        (IsDone(p, "summary") /\ res[p].kind = "ok") =>
            \A i \in DOMAIN res[p].list :
                LET item == res[p].list[i] IN
                /\ item.period = req[p].period
                /\ "date" \in DOMAIN item
                /\ 2 * Dist(item.percentage * item.total, item.present * 10000)
                      <= item.total

\* the percentage of every item is present / total * 100 of the item, to
\* the nearest hundredth
SummaryItemPercentage ==
    \A p \in Procs :
        (IsDone(p, "summary") /\ res[p].kind = "ok") =>
            \A i \in DOMAIN res[p].list :
                LET item == res[p].list[i] IN
                /\ item.total > 0
                /\ 2 * Dist(item.percentage * item.total, item.present * 10000)
                      <= item.total

(* -------------------------------- list --------------------------------- *)
\* the records of the store that satisfy every filter a listing supplied,
\* with both bounds of the date range
ListMatched(r) ==
    {d \in attendance :
        /\ r.filters.user_id # None => d.user_id = r.filters.user_id
        /\ r.filters.parent_id # None => d.parent_id = r.filters.parent_id
        /\ r.filters.parent_type # None => d.parent_type = r.filters.parent_type
        /\ r.filters.status # None => d.status = r.filters.status
        /\ r.filters.question_id # None => d.question_id = r.filters.question_id
        /\ r.filters.submitted_by # None => d.submitted_by = r.filters.submitted_by
        /\ r.filters.start_date # NoDate => DateLeq(r.filters.start_date, d.created_at)
        /\ r.filters.end_date # NoDate => DateLeq(d.created_at, r.filters.end_date)}

\* the number of matching records created after the record d, and the
\* number created no earlier than d
Newer(r, d) ==
    Cardinality({e \in ListMatched(r) : ~DateLeq(e.created_at, d.created_at)})
NotOlder(r, d) ==
    Cardinality({e \in ListMatched(r) : DateLeq(d.created_at, e.created_at)})

\* the list l is the positions skip + 1 .. skip + limit of the matching
\* records in descending order of created_at: it has the length of that
\* window, no record twice, and its k-th record can stand at position
\* skip + k of the order
IsWindow(l, r) ==
    LET n == Cardinality(ListMatched(r))
        rest == IF n > r.skip THEN n - r.skip ELSE 0
    IN /\ Len(l) = (IF r.limit < rest THEN r.limit ELSE rest)
       /\ \A k \in DOMAIN l :
            /\ l[k] \in ListMatched(r)
            /\ \A m \in DOMAIN l : m # k => l[m] # l[k]
            /\ \A m \in DOMAIN l : k < m => DateLeq(l[m].created_at, l[k].created_at)
            /\ Newer(r, l[k]) < r.skip + k
            /\ r.skip + k <= NotOlder(r, l[k])

\* C23: list returns positions skip .. skip + limit - 1 of the matching
\* records sorted by createdAt descending, so at most limit records
C23_ListWindow ==
    \A p \in Procs :
        (IsDone(p, "list") /\ res[p].kind = "ok") => IsWindow(res[p].list, req[p])

\* with a limit of at least 1, list returns that window
ListWindow_PositiveLimit ==
    \A p \in Procs :
        (IsDone(p, "list") /\ res[p].kind = "ok" /\ req[p].limit >= 1)
            => IsWindow(res[p].list, req[p])

\* C24: every record a listing returns satisfies every filter supplied,
\* and with a start and an end date both bounds hold for it
C24_ListFilters ==
    \A p \in Procs :
        ((IsDone(p, "list") \/ IsDone(p, "list_route")) /\ res[p].kind = "ok") =>
            \A k \in DOMAIN res[p].list : res[p].list[k] \in ListMatched(req[p])

\* the service's own listing returns matching records only
ListFilters_Service ==
    \A p \in Procs :
        (IsDone(p, "list") /\ res[p].kind = "ok") =>
            \A k \in DOMAIN res[p].list : res[p].list[k] \in ListMatched(req[p])

\* the start and the end date of a finished list, stats or summary request
RangeOf(r) ==
    IF r.op \in {"list", "list_route"}
    THEN <<r.filters.start_date, r.filters.end_date>>
    ELSE <<r.start_date, r.end_date>>

\* C25: list, computeStats and computeSummary called with an end date
\* before the start date fail with InvalidArgument
C25_EndBeforeStart ==
    \A p \in Procs :
        (/\ pc[p] = "done"
         /\ req[p].op \in {"list", "list_route", "stats", "summary"}
         /\ RangeOf(req[p])[1] # NoDate /\ RangeOf(req[p])[2] # NoDate
         /\ ~DateLeq(RangeOf(req[p])[1], RangeOf(req[p])[2]))
            => res[p].kind = "InvalidArgument"

\* a request with an end date before the start date that is given no other
\* reason to fail is answered with a result
EndBeforeStart_Answered ==
    \A p \in Procs :
        (/\ pc[p] = "done"
         /\ req[p].op \in {"list", "stats", "summary"}
         /\ RangeOf(req[p])[1] # NoDate /\ RangeOf(req[p])[2] # NoDate
         /\ ~DateLeq(RangeOf(req[p])[1], RangeOf(req[p])[2])
         /\ (req[p].op = "summary" => req[p].period \in {"daily", "weekly", "monthly"}))
            => res[p].kind = "ok"

(* ------------------------------- reads --------------------------------- *)
\* the read operations
ReadOps == {"get", "get_by_user_and_parent", "list", "list_route", "stats",
            "summary", "not_attended"}

\* C26: every step of getById, getByUserAndParent, list, computeStats,
\* computeSummary and getNotAttended, whether it ends in a result or in an
\* error, leaves the attendance, user, event and meeting stores as they were
C26_ReadsFrame ==
    [][(\E p \in Procs : pc'[p] # pc[p] /\ req'[p].op \in ReadOps)
          => UNCHANGED <<attendance, users, events, meetings>>]_vars

\* a getById has found its record in a store of several records, which are
\* all still there
C26_Witness ==
    \E p \in Procs :
        /\ IsDone(p, "get") /\ res[p].kind = "ok"
        /\ res[p].ids # {}
        /\ res[p].ids \subseteq {d.id : d \in attendance}
        /\ Cardinality(attendance) >= 2

(* ------------------------ concurrent bulkCreate ------------------------ *)
\* the records d and e are of one (user, parent, parent type)
SameTuple(d, e) ==
    /\ d.user_id = e.user_id
    /\ d.parent_id = e.parent_id
    /\ d.parent_type = e.parent_type

\* C27: a bulkCreate and a create or another bulkCreate that run
\* concurrently with a common (userId, parentId, parentType) leave one
\* record of that tuple: they never both have a record of it in the store,
\* the item of the loser being skipped or failed
C27_ConcurrentBulkOneWins ==
    \A p, q \in Procs :
        (/\ p # q
         /\ req[p].op = "bulk" /\ req[q].op \in {"create", "bulk"})
            => \A d \in OwnDocs(p), e \in OwnDocs(q) : ~SameTuple(d, e)

(* ------------------------- create after delete ------------------------- *)
\* C28: uniqueness binds live records only: a create for a tuple whose
\* record has been deleted, with user and parent existing, is not refused
\* as a duplicate, and when it succeeds the tuple has one record, the new
\* one, under an id that no record had before
C28_CreateAfterDelete ==
    \A p \in Procs :
        IsDone(p, "create") =>
            LET live == DocsFor(req[p].user_id, req[p].parent_id, req[p].parent_type)
            IN /\ res[p].kind \in {"ok", "Conflict", "Internal"}
               /\ res[p].kind = "Conflict" => live # {}
               /\ res[p].kind = "Internal" => live = {}
               /\ res[p].kind = "ok" =>
                    /\ Cardinality(live) = 1
                    /\ res[p].ids = {d.id : d \in live}
                    /\ res[p].ids = {nextId - 1}

\* the second create of the tuple has succeeded after its first record,
\* of id 1, was deleted: the store holds the record of id 2 alone
C28_Witness ==
    \E p \in Procs :
        /\ IsDone(p, "create") /\ res[p].kind = "ok"
        /\ res[p].ids = {2}
        /\ {d.id : d \in attendance} = {2}

(* ----------------------- update against delete ------------------------- *)
\* no record of the id is stored
Gone(store, id) == \A d \in store : d.id # id

\* C29: an update never re-creates a deleted record: an id that was given
\* out and has no record in the store gets none again, whatever step an
\* update of that id is at, and an update that ends after its record was
\* deleted answers not-found (the handler's 404 or the service's None)
\* with no record
C29_UpdateNeverRecreates ==
    [][/\ \A id \in 1..MaxId :
            (id < nextId /\ Gone(attendance, id)) => Gone(attendance', id)
       /\ \A p \in Procs :
            (/\ req'[p].op = "update"
             /\ pc[p] # "done" /\ pc'[p] = "done"
             /\ req'[p].id < nextId /\ Gone(attendance, req'[p].id))
                => /\ res'[p].kind \in {"NotFound", "None"}
                   /\ res'[p].ids = {}]_vars

\* a delete has succeeded while an update of the same record was between
\* its lookup and its update_one; the update then ended with None and the
\* record is gone
C29_Witness ==
    \E p, q \in Procs :
        /\ IsDone(q, "delete") /\ res[q].kind = "ok"
        /\ IsDone(p, "update") /\ req[p].id = req[q].id
        /\ DOMAIN req[p].update # {}
        /\ res[p].kind = "None"
        /\ Gone(attendance, req[p].id)

(* --------------------------- stored statuses --------------------------- *)
\* C30: after any sequence of create, bulkCreate and update every stored
\* record has one of the statuses present, absent, late, excused, and
\* statistics computed with no write beside them have
\* present + absent + late + excused = total
C30_StatusesValid ==
    /\ \A d \in attendance : d.status \in AttendanceStatus
    /\ \A p \in Procs :
         (IsDone(p, "stats") /\ res[p].kind = "ok") =>
            LET s == res[p].stats IN
            s.present + s.absent + s.late + s.excused = s.total

\* a stored status is one of the four or null, and statistics computed with
\* no write beside them count the records of the four statuses and, in
\* total, all records
StatusesValidOrNull ==
    /\ \A d \in attendance : d.status \in AttendanceStatus \cup {None}
    /\ \A p \in Procs :
         (IsDone(p, "stats") /\ res[p].kind = "ok") =>
            LET s == res[p].stats IN
            /\ s.total = Cardinality(attendance)
            /\ s.present + s.absent + s.late + s.excused =
                 Cardinality({d \in attendance : d.status \in AttendanceStatus})
====
